---- MODULE Spec2Model ----
(***************************************************************************)
(* Active-set method for convex quadratic programs                         *)
(*     min 1/2 x'Gx + x'c   s.t.  ae x = be,  ai x >= bi                   *)
(* as implemented by active_set, QP_subproblem and QP_activeset in         *)
(* "Active-set methods for convex QPs".  Numbers are exact rationals       *)
(* <<numerator, denominator>> in lowest terms with a positive denominator; *)
(* matrices are sequences of rows.                                         *)
(***************************************************************************)
EXTENDS Integers, Sequences, FiniteSets, TLC

VARIABLES
    G, c, ae, be, ai, bi, x0,      \* the arguments of QP_activeset
    pc,                            \* position in QP_activeset
    xk,                            \* current iterate
    ws_active, ws_inactive,        \* rows [a | b] of the inequality constraints
    we, ws,                        \* equality rows, working set
    pk, lambda_k,                  \* result of the last subproblem solve
    alpha_k, n_constraint,         \* result of the last step-length scan
    iter,                          \* number of subproblem solves so far
    last,                          \* outcome of the last completed iteration
    call,                          \* 1: the call, 2: the call repeated from x*
    active_1,                      \* in call 2: the active rows call 1 returned with
    unit,                          \* c, be, bi, x, p, lambda count in 10^(-unit)
    parked                         \* a second call in progress, or None

inputs == <<G, c, ae, be, ai, bi, x0>>
locals == <<xk, ws_active, ws_inactive, we, ws, pk, lambda_k, alpha_k, n_constraint>>
vars == <<G, c, ae, be, ai, bi, x0, pc, xk, ws_active, ws_inactive, we, ws,
          pk, lambda_k, alpha_k, n_constraint, iter, last, call, active_1, unit, parked>>

-----------------------------------------------------------------------------
(* Bounds of the model *)

\* longest sequence of inequality rows drawn for a generated problem
MaxNi == 2
\* coordinates of a generated start point range over 0..MaxCoord
MaxCoord == 2
\* the solve counter saturates here
MaxIter == 12

-----------------------------------------------------------------------------
(* Exact rational arithmetic *)

Abs(n) == IF n < 0 THEN -n ELSE n

RECURSIVE Gcd(_, _)
Gcd(a, b) == IF b = 0 THEN a ELSE Gcd(b, a % b)

\* n/d in lowest terms, d # 0
Rat(n, d) ==
    LET g == Gcd(Abs(n), Abs(d))
        s == IF d < 0 THEN -1 ELSE 1
    IN  <<(s * n) \div g, (s * d) \div g>>

RInt(n) == <<n, 1>>
RZero == <<0, 1>>
ROne == <<1, 1>>
RAdd(p, q) == Rat(p[1] * q[2] + q[1] * p[2], p[2] * q[2])
RSub(p, q) == Rat(p[1] * q[2] - q[1] * p[2], p[2] * q[2])
RMul(p, q) == Rat(p[1] * q[1], p[2] * q[2])
RDiv(p, q) == Rat(p[1] * q[2], p[2] * q[1])
RNeg(p) == <<-p[1], p[2]>>
RLt(p, q) == p[1] * q[2] < q[1] * p[2]
RLe(p, q) == p[1] * q[2] <= q[1] * p[2]

RECURSIVE RSum(_)
RSum(s) == IF s = <<>> THEN RZero ELSE RAdd(s[1], RSum(Tail(s)))

RECURSIVE ISum(_)
ISum(s) == IF s = <<>> THEN 0 ELSE s[1] + ISum(Tail(s))

\* an integer vector as a rational vector
RVec(v) == [i \in 1..Len(v) |-> RInt(v[i])]

\* a @ x for an integer row a and a rational vector x
Dot(a, x) == RSum([i \in 1..Len(a) |-> RMul(RInt(a[i]), x[i])])

\* M @ x for an integer matrix M and a rational vector x
MatVec(M, x) == [i \in 1..Len(M) |-> Dot(M[i], x)]

\* M @ x for a rational matrix M and a rational vector x
RMatVec(M, x) ==
    [i \in 1..Len(M) |-> RSum([j \in 1..Len(x) |-> RMul(M[i][j], x[j])])]

VAdd(x, y) == [i \in 1..Len(x) |-> RAdd(x[i], y[i])]
VScale(x, k) == [i \in 1..Len(x) |-> RMul(x[i], k)]

-----------------------------------------------------------------------------
(* Matrix inverse of an integer matrix: adjugate over determinant *)

\* M without row i and column j
Minor(M, i, j) ==
    [r \in 1..(Len(M) - 1) |->
        [k \in 1..(Len(M) - 1) |->
            M[IF r < i THEN r ELSE r + 1][IF k < j THEN k ELSE k + 1]]]

Sign(k) == IF k % 2 = 0 THEN 1 ELSE -1

RECURSIVE Det(_)
Det(M) ==
    IF Len(M) = 0 THEN 1
    ELSE IF Len(M) = 1 THEN M[1][1]
    ELSE ISum([j \in 1..Len(M) |->
                 IF M[1][j] = 0 THEN 0
                 ELSE Sign(1 + j) * M[1][j] * Det(Minor(M, 1, j))])

\* np.linalg.inv raises LinAlgError on a singular matrix
IsSingular(M) == Det(M) = 0

\* np.linalg.inv(M) for a non-singular M
Inv(M) ==
    LET d == Det(M)
    IN  [i \in 1..Len(M) |->
            [j \in 1..Len(M) |-> Rat(Sign(i + j) * Det(Minor(M, j, i)), d)]]

-----------------------------------------------------------------------------
(* Near-zero tolerance *)

\* tol_zero = 10^(-TolExp)
TolExp == 10

\* n * 10^k < d for naturals n, d, without forming 10^k
RECURSIVE BelowPow10(_, _, _)
BelowPow10(n, d, k) ==
    IF k = 0 THEN n < d ELSE BelowPow10(n, ((d + 9) \div 10), k - 1)

\* a variant that leaves every entry as it is
Snap_Identity(q) == q

\* sol[abs(sol) < tol_zero] = 0.0, one entry; q counts in 10^(-unit)
Snap(q) == IF BelowPow10(Abs(q[1]), q[2], TolExp - unit) THEN RZero ELSE q

-----------------------------------------------------------------------------
(* Rows [a | b] *)

None == <<>>

RowA(row) == SubSeq(row, 1, Len(row) - 1)
RowB(row) == row[Len(row)]

\* a variant that puts the right-hand side first: np.hstack((b, a))
hstack_RhsFirst(a, b) == [i \in 1..Len(a) |-> <<b[i]>> \o a[i]]

\* np.hstack((a, b)) of a coefficient matrix and a right-hand side column
hstack(a, b) == [i \in 1..Len(a) |-> Append(a[i], b[i])]

\* a @ x - b
Residual(row, x) == RSub(Dot(RowA(row), x), RInt(RowB(row)))

-----------------------------------------------------------------------------
(* active_set *)

\* a variant that takes every satisfied row for active: ai @ x0 - bi >= 0
n_active_row_NonNegative(row, x) == RLe(RZero, Residual(row, x))

n_active_row(row, x) == Residual(row, x) = RZero

active_set(a_i, b_i, x) ==
    LET rows == hstack(a_i, b_i)
    IN  <<SelectSeq(rows, LAMBDA r : n_active_row(r, x)),
          SelectSeq(rows, LAMBDA r : ~n_active_row(r, x))>>

-----------------------------------------------------------------------------
(* QP_subproblem *)

\* gk = G @ xk + c
Gradient(Gm, cv, x) == VAdd(MatVec(Gm, x), RVec(cv))

\* rhs = [-gk ; 0]
KKTrhs(Gm, cv, w, x) ==
    LET Nx == Len(x)
        gk == Gradient(Gm, cv, x)
    IN  [i \in 1..(Nx + Len(w)) |-> IF i <= Nx THEN RNeg(gk[i]) ELSE RZero]

\* a variant with the sign of the A' block wrong: [G  A' ; A  0]
KKTlhs_PlusAT(Gm, w, Nx) ==
    LET A == [i \in 1..Len(w) |-> RowA(w[i])]
        n == Nx + Len(w)
    IN  [i \in 1..n |-> [j \in 1..n |->
            IF i <= Nx
            THEN IF j <= Nx THEN Gm[i][j] ELSE A[j - Nx][i]
            ELSE IF j <= Nx THEN A[i - Nx][j] ELSE 0]]

\* lhs = [G  -A' ; A  0]
KKTlhs(Gm, w, Nx) ==
    LET A == [i \in 1..Len(w) |-> RowA(w[i])]
        n == Nx + Len(w)
    IN  [i \in 1..n |-> [j \in 1..n |->
            IF i <= Nx
            THEN IF j <= Nx THEN Gm[i][j] ELSE -A[j - Nx][i]
            ELSE IF j <= Nx THEN A[i - Nx][j] ELSE 0]]

\* sol = np.linalg.inv(lhs) @ rhs with the near-zero entries set to 0, split
\* into pk and lambda_k
Solution(Gm, cv, w, x) ==
    LET Nx == Len(x)
        raw == RMatVec(Inv(KKTlhs(Gm, w, Nx)), KKTrhs(Gm, cv, w, x))
        sol == [i \in 1..Len(raw) |-> Snap(raw[i])]
    IN  [raised |-> FALSE,
         pk |-> SubSeq(sol, 1, Nx),
         lambda_k |-> SubSeq(sol, Nx + 1, Len(sol))]

\* a variant that answers with a zero solution where np.linalg.inv raises
QP_subproblem_NoRaise(Gm, cv, w, x) ==
    IF IsSingular(KKTlhs(Gm, w, Len(x)))
    THEN [raised |-> FALSE,
          pk |-> [i \in 1..Len(x) |-> RZero],
          lambda_k |-> [i \in 1..Len(w) |-> RZero]]
    ELSE Solution(Gm, cv, w, x)

\* the value returned, or raised = TRUE when np.linalg.inv raises LinAlgError
QP_subproblem(Gm, cv, w, x) ==
    IF IsSingular(KKTlhs(Gm, w, Len(x)))
    THEN [raised |-> TRUE, pk |-> <<>>, lambda_k |-> <<>>]
    ELSE Solution(Gm, cv, w, x)

-----------------------------------------------------------------------------
(* The problems QP_activeset is called on *)

diag2 == <<<<2, 0>>, <<0, 2>>>>

GSet == {diag2, <<<<2, 1>>, <<1, 2>>>>}
CSet == {<<0, 0>>, <<-2, -5>>}

\* inequality rows [a | b], meaning a x >= b
IneqRows ==
    {<<1, 0, 0>>, <<1, 0, 1>>, <<0, 1, 1>>, <<1, 1, 1>>, <<1, 1, 2>>,
     <<-1, 0, -1>>}

\* equality blocks [a | b]: none, x1 - x2 = 0, x1 + x2 = 2
EqBlocks == {<<>>, <<<<1, -1, 0>>>>, <<<<1, 1, 2>>>>}

IneqBlocks == UNION {[1..n -> IneqRows] : n \in 0..MaxNi}

StartPoints == {None} \cup {<<u, v>> : u \in 0..MaxCoord, v \in 0..MaxCoord}

CoefOf(block) == [i \in 1..Len(block) |-> RowA(block[i])]
RhsOf(block) == [i \in 1..Len(block) |-> RowB(block[i])]

Problem(Gm, cv, eqs, ineqs, start) ==
    [G |-> Gm, c |-> cv,
     ae |-> CoefOf(eqs), be |-> RhsOf(eqs),
     ai |-> CoefOf(ineqs), bi |-> RhsOf(ineqs),
     x0 |-> start]

Generated ==
    {Problem(Gm, cv, eqs, ineqs, start) :
        Gm \in GSet, cv \in CSet, eqs \in EqBlocks,
        ineqs \in IneqBlocks, start \in StartPoints}

\* the four calls of the notebook
Test1 ==
    Problem(diag2, <<-2, -5>>, <<>>,
            <<<<1, -2, -2>>, <<-1, -2, -6>>, <<-1, 2, -2>>, <<1, 0, 0>>, <<0, 1, 0>>>>,
            <<2, 0>>)
Test2 == Problem(diag2, <<0, 0>>, <<<<1, -1, 0>>>>, <<<<1, 0, 1>>>>, <<3, 3>>)
Test3 == Problem(diag2, <<0, 0>>, <<<<1, -1, 0>>>>, <<>>, <<3, 3>>)
Test4 ==
    Problem(<<<<2, 0, 0>>, <<0, 2, 0>>, <<0, 0, 2>>>>, <<0, 0, 0>>,
            <<<<1, 1, 1, 1>>>>, <<>>, <<3, 3, -5>>)

Problems == Generated \cup {Test1, Test2, Test3, Test4}

-----------------------------------------------------------------------------
(* QP_activeset *)

Nx == Len(G)
Ne == IF ae # None THEN Len(ae) ELSE 0
Ni == IF ai # None THEN Len(ai) ELSE 0

\* a variant whose default start is np.ones
StartPoint_Ones == IF x0 = None THEN [i \in 1..Nx |-> ROne] ELSE x0

\* x0 as the precheck sees it: zeros when the argument is omitted
StartPoint == IF x0 = None THEN [i \in 1..Nx |-> RZero] ELSE x0

\* np.all(ae @ x0 - be == 0)
EqualitiesHold(x) ==
    \A i \in 1..Len(ae) : Residual(Append(ae[i], be[i]), x) = RZero

\* a variant that tests np.any(ai @ x0 - bi >= 0)
InequalitiesHold_Any(x) ==
    \E i \in 1..Len(ai) : RLe(RZero, Residual(Append(ai[i], bi[i]), x))

\* np.all(ai @ x0 - bi >= 0)
InequalitiesHold(x) ==
    \A i \in 1..Len(ai) : RLe(RZero, Residual(Append(ai[i], bi[i]), x))

Init ==
    /\ \E p \in Problems :
        /\ G = p.G /\ c = p.c
        /\ ae = p.ae /\ be = p.be
        /\ ai = p.ai /\ bi = p.bi
        /\ x0 = (IF p.x0 = None THEN None ELSE RVec(p.x0))
    /\ pc = "precheck"
    /\ xk = <<>>
    /\ ws_active = <<>> /\ ws_inactive = <<>>
    /\ we = <<>> /\ ws = <<>>
    /\ pk = <<>> /\ lambda_k = <<>>
    /\ alpha_k = ROne /\ n_constraint = 0
    /\ iter = 0
    /\ last = "none"
    /\ call = 1
    /\ active_1 = <<>>
    /\ unit = 0
    /\ parked = None

\* the feasibility test of the start point fails: print("Error"); return None
PrecheckFail ==
    /\ pc = "precheck"
    /\ \/ ae # None /\ ~EqualitiesHold(StartPoint)
       \/ ai # None /\ ~InequalitiesHold(StartPoint)
    /\ pc' = "error"
    /\ UNCHANGED <<inputs, locals, iter, last, call, active_1, unit, parked>>

\* the feasibility test passes: xk = x0
PrecheckPass ==
    /\ pc = "precheck"
    /\ ae # None => EqualitiesHold(StartPoint)
    /\ ai # None => InequalitiesHold(StartPoint)
    /\ xk' = StartPoint
    /\ pc' = "init"
    /\ UNCHANGED <<inputs, ws_active, ws_inactive, we, ws, pk, lambda_k,
                   alpha_k, n_constraint, iter, last, call, active_1, unit, parked>>

\* a variant that starts with every inequality row inactive
Initialize_NoActive ==
    /\ pc = "init"
    /\ LET rows == IF ai # None THEN hstack(ai, bi) ELSE <<>>
           eqrows == IF ae = None THEN <<>> ELSE hstack(ae, be)
       IN  /\ ws_active' = <<>>
           /\ ws_inactive' = rows
           /\ we' = eqrows
           /\ ws' = eqrows
    /\ pc' = "solve"
    /\ UNCHANGED <<inputs, xk, pk, lambda_k, alpha_k, n_constraint, iter, last, call, active_1, unit, parked>>

\* initial active and inactive rows, equality rows, working set
Initialize ==
    /\ pc = "init"
    /\ LET sets == IF ai # None THEN active_set(ai, bi, xk) ELSE <<<<>>, <<>>>>
           eqrows == IF ae = None THEN <<>> ELSE hstack(ae, be)
       IN  /\ ws_active' = sets[1]
           /\ ws_inactive' = sets[2]
           /\ we' = eqrows
           /\ ws' = eqrows \o sets[1]
    /\ pc' = "solve"
    /\ UNCHANGED <<inputs, xk, pk, lambda_k, alpha_k, n_constraint, iter, last, call, active_1, unit, parked>>

\* pk, lambda_k = QP_subproblem(G, c, ws, xk), or its LinAlgError
Solve ==
    /\ pc = "solve"
    /\ LET r == QP_subproblem(G, c, ws, xk)
       IN  IF r.raised
           THEN pc' = "singular" /\ UNCHANGED <<pk, lambda_k>>
           ELSE pc' = "branch" /\ pk' = r.pk /\ lambda_k' = r.lambda_k
    /\ iter' = IF iter < MaxIter THEN iter + 1 ELSE iter
    /\ UNCHANGED <<inputs, xk, ws_active, ws_inactive, we, ws, alpha_k,
                   n_constraint, last, call, active_1, unit, parked>>

\* a variant that slices one entry too far: lambda_k[Ne + 1:, :]
lambda_inequality_SkipFirst ==
    IF Len(lambda_k) > Ne THEN SubSeq(lambda_k, Ne + 2, Len(lambda_k)) ELSE <<>>

\* lambda_k[Ne:, :]
lambda_inequality ==
    IF Len(lambda_k) > Ne THEN SubSeq(lambda_k, Ne + 1, Len(lambda_k)) ELSE <<>>

\* n_zero == Nx
ZeroStep == \A i \in 1..Len(pk) : pk[i] = RZero

\* a variant with the sign of the test wrong: np.all(lambda_inequality <= 0)
MultipliersNonNegative_NonPositive ==
    \A i \in 1..Len(lambda_inequality) : RLe(lambda_inequality[i], RZero)

\* a variant that tests every multiplier: np.all(lambda_k >= 0)
MultipliersNonNegative_All ==
    \A i \in 1..Len(lambda_k) : RLe(RZero, lambda_k[i])

\* np.all(lambda_inequality >= 0)
MultipliersNonNegative ==
    \A i \in 1..Len(lambda_inequality) : RLe(RZero, lambda_inequality[i])

\* a variant that takes the first index of the largest entry: np.argmax
ArgMin_Largest(s) ==
    CHOOSE i \in 1..Len(s) :
        /\ \A j \in 1..Len(s) : RLe(s[j], s[i])
        /\ \A j \in 1..(i - 1) : RLt(s[j], s[i])

\* np.argmin over a non-empty sequence: the first index of the least entry
ArgMin(s) ==
    CHOOSE i \in 1..Len(s) :
        /\ \A j \in 1..Len(s) : RLe(s[i], s[j])
        /\ \A j \in 1..(i - 1) : RLt(s[i], s[j])

\* a variant that cuts at the wrong index and removes nothing
Delete_KeepsRow(s, n) == SubSeq(s, 1, n - 1) \o SubSeq(s, n, Len(s))

\* the sequence without its n-th entry
Delete(s, n) == SubSeq(s, 1, n - 1) \o SubSeq(s, n + 1, Len(s))

\* return xk, lambda_k
Return ==
    /\ pc = "branch"
    /\ ZeroStep
    /\ MultipliersNonNegative
    /\ pc' = "done"
    /\ last' = "return"
    /\ UNCHANGED <<inputs, locals, iter, call, active_1, unit, parked>>

\* a variant that leaves the working set as it was: ws is not rebuilt
Drop_StaleWorkingSet ==
    /\ pc = "branch"
    /\ ZeroStep
    /\ ~MultipliersNonNegative
    /\ LET n_min == ArgMin(lambda_inequality)
           row_del == ws_active[n_min]
           act == Delete(ws_active, n_min)
       IN  /\ ws_active' = act
           /\ ws_inactive' = Append(ws_inactive, row_del)
    /\ pc' = "solve"
    /\ last' = "drop"
    /\ UNCHANGED <<inputs, xk, we, ws, pk, lambda_k, alpha_k, n_constraint, iter, call, active_1, unit, parked>>

\* a variant that drops every active row with a negative multiplier at once
Drop_AllNegative ==
    /\ pc = "branch"
    /\ ZeroStep
    /\ ~MultipliersNonNegative
    /\ LET neg == {n \in 1..Len(ws_active) : RLt(lambda_inequality[n], RZero)}
           keep == [n \in 1..Len(ws_active) |-> n \notin neg]
           act == SelectSeq([n \in 1..Len(ws_active) |-> <<ws_active[n], keep[n]>>],
                            LAMBDA e : e[2])
           del == SelectSeq([n \in 1..Len(ws_active) |-> <<ws_active[n], keep[n]>>],
                            LAMBDA e : ~e[2])
           rows(q) == [n \in 1..Len(q) |-> q[n][1]]
       IN  /\ ws_active' = rows(act)
           /\ ws_inactive' = ws_inactive \o rows(del)
           /\ ws' = we \o rows(act)
    /\ pc' = "solve"
    /\ last' = "drop"
    /\ UNCHANGED <<inputs, xk, we, pk, lambda_k, alpha_k, n_constraint, iter, call, active_1, unit, parked>>

\* drop the active row with the most negative multiplier
Drop ==
    /\ pc = "branch"
    /\ ZeroStep
    /\ ~MultipliersNonNegative
    /\ LET n_min == ArgMin(lambda_inequality)
           row_del == ws_active[n_min]
           act == Delete(ws_active, n_min)
       IN  /\ ws_active' = act
           /\ ws_inactive' = Append(ws_inactive, row_del)
           /\ ws' = we \o act
    /\ pc' = "solve"
    /\ last' = "drop"
    /\ UNCHANGED <<inputs, xk, we, pk, lambda_k, alpha_k, n_constraint, iter, call, active_1, unit, parked>>

\* the test that lets a ratio replace alpha_k
Accepts(v_tmp, alpha) == RLt(v_tmp, ROne)

\* a variant that remembers only the first row it accepts
RECURSIVE Scan_RemembersFirst(_, _, _, _, _, _)
Scan_RemembersFirst(inact, x, p, i, alpha, n) ==
    IF i > Len(inact) THEN <<alpha, n>>
    ELSE LET ap == Dot(RowA(inact[i]), p)
         IN  IF RLt(ap, RZero)
             THEN LET v_tmp == RDiv(RNeg(Residual(inact[i], x)), ap)
                  IN  IF Accepts(v_tmp, alpha)
                      THEN Scan_RemembersFirst(inact, x, p, i + 1, v_tmp,
                                               IF alpha = ROne THEN i ELSE n)
                      ELSE Scan_RemembersFirst(inact, x, p, i + 1, alpha, n)
             ELSE Scan_RemembersFirst(inact, x, p, i + 1, alpha, n)

\* the loop over the inactive rows from row i on: <<alpha_k, n_constraint>>
RECURSIVE Scan(_, _, _, _, _, _)
Scan(inact, x, p, i, alpha, n) ==
    IF i > Len(inact) THEN <<alpha, n>>
    ELSE LET ap == Dot(RowA(inact[i]), p)
         IN  IF RLt(ap, RZero)
             THEN LET v_tmp == RDiv(RNeg(Residual(inact[i], x)), ap)
                  IN  IF Accepts(v_tmp, alpha)
                      THEN Scan(inact, x, p, i + 1, v_tmp, i)
                      ELSE Scan(inact, x, p, i + 1, alpha, n)
             ELSE Scan(inact, x, p, i + 1, alpha, n)

\* a variant whose loop misses the first inactive row
StepLength_FromSecondRow == Scan(ws_inactive, xk, pk, 2, ROne, n_constraint)

\* alpha_k = 1, then the loop: <<alpha_k, n_constraint>> after it
StepLength == Scan(ws_inactive, xk, pk, 1, ROne, n_constraint)

\* a variant that computes xk + pk * alpha_k and does not assign it
FullStep_Stalls ==
    /\ pc = "branch"
    /\ ~ZeroStep
    /\ LET sl == StepLength
       IN  /\ sl[1] = ROne
           /\ alpha_k' = sl[1]
           /\ n_constraint' = sl[2]
    /\ pc' = "solve"
    /\ last' = "full"
    /\ UNCHANGED <<inputs, xk, ws_active, ws_inactive, we, ws, pk, lambda_k, iter, call, active_1, unit, parked>>

\* a variant that recomputes the active rows at the new point
FullStep_Activates ==
    /\ pc = "branch"
    /\ ~ZeroStep
    /\ LET sl == StepLength
           xn == VAdd(xk, VScale(pk, sl[1]))
           sets == IF ai # None THEN active_set(ai, bi, xn) ELSE <<<<>>, <<>>>>
       IN  /\ sl[1] = ROne
           /\ alpha_k' = sl[1]
           /\ n_constraint' = sl[2]
           /\ xk' = xn
           /\ ws_active' = sets[1]
           /\ ws_inactive' = sets[2]
           /\ ws' = we \o sets[1]
    /\ pc' = "solve"
    /\ last' = "full"
    /\ UNCHANGED <<inputs, we, pk, lambda_k, iter, call, active_1, unit, parked>>

\* a variant that moves half of the way: xk + pk * alpha_k / 2
FullStep_Half ==
    /\ pc = "branch"
    /\ ~ZeroStep
    /\ LET sl == StepLength
       IN  /\ sl[1] = ROne
           /\ alpha_k' = sl[1]
           /\ n_constraint' = sl[2]
           /\ xk' = VAdd(xk, VScale(pk, <<1, 2>>))
    /\ pc' = "solve"
    /\ last' = "full"
    /\ UNCHANGED <<inputs, ws_active, ws_inactive, we, ws, pk, lambda_k, iter, call, active_1, unit, parked>>

\* alpha_k == 1: xk = xk + pk * alpha_k
FullStep ==
    /\ pc = "branch"
    /\ ~ZeroStep
    /\ LET sl == StepLength
       IN  /\ sl[1] = ROne
           /\ alpha_k' = sl[1]
           /\ n_constraint' = sl[2]
           /\ xk' = VAdd(xk, VScale(pk, sl[1]))
    /\ pc' = "solve"
    /\ last' = "full"
    /\ UNCHANGED <<inputs, ws_active, ws_inactive, we, ws, pk, lambda_k, iter, call, active_1, unit, parked>>

\* a variant that adds the row and moves the whole step: xk + pk
PartialStep_FullLength ==
    /\ pc = "branch"
    /\ ~ZeroStep
    /\ LET sl == StepLength
           row_inc == ws_inactive[sl[2]]
           act == Append(ws_active, row_inc)
       IN  /\ sl[1] # ROne
           /\ alpha_k' = sl[1]
           /\ n_constraint' = sl[2]
           /\ ws_active' = act
           /\ ws_inactive' = Delete(ws_inactive, sl[2])
           /\ ws' = we \o act
           /\ xk' = VAdd(xk, pk)
    /\ pc' = "solve"
    /\ last' = "partial"
    /\ UNCHANGED <<inputs, we, pk, lambda_k, iter, call, active_1, unit, parked>>

\* a variant that puts the added row in front of the active rows
PartialStep_Prepends ==
    /\ pc = "branch"
    /\ ~ZeroStep
    /\ LET sl == StepLength
           row_inc == ws_inactive[sl[2]]
           act == <<row_inc>> \o ws_active
       IN  /\ sl[1] # ROne
           /\ alpha_k' = sl[1]
           /\ n_constraint' = sl[2]
           /\ ws_active' = act
           /\ ws_inactive' = Delete(ws_inactive, sl[2])
           /\ ws' = we \o act
           /\ xk' = VAdd(xk, VScale(pk, sl[1]))
    /\ pc' = "solve"
    /\ last' = "partial"
    /\ UNCHANGED <<inputs, we, pk, lambda_k, iter, call, active_1, unit, parked>>

\* alpha_k # 1: move row n_constraint to the active rows, xk = xk + pk * alpha_k
PartialStep ==
    /\ pc = "branch"
    /\ ~ZeroStep
    /\ LET sl == StepLength
           row_inc == ws_inactive[sl[2]]
           act == Append(ws_active, row_inc)
       IN  /\ sl[1] # ROne
           /\ alpha_k' = sl[1]
           /\ n_constraint' = sl[2]
           /\ ws_active' = act
           /\ ws_inactive' = Delete(ws_inactive, sl[2])
           /\ ws' = we \o act
           /\ xk' = VAdd(xk, VScale(pk, sl[1]))
    /\ pc' = "solve"
    /\ last' = "partial"
    /\ UNCHANGED <<inputs, we, pk, lambda_k, iter, call, active_1, unit, parked>>

\* the same problem solved again from the returned point: x0 = x*
Rerun ==
    /\ pc = "done"
    /\ call = 1
    /\ x0' = xk
    /\ pc' = "precheck"
    /\ xk' = <<>>
    /\ ws_active' = <<>> /\ ws_inactive' = <<>>
    /\ we' = <<>> /\ ws' = <<>>
    /\ pk' = <<>> /\ lambda_k' = <<>>
    /\ alpha_k' = ROne /\ n_constraint' = 0
    /\ iter' = 0
    /\ last' = "none"
    /\ call' = 2
    /\ active_1' = ws_active
    /\ UNCHANGED <<G, c, ae, be, ai, bi, unit, parked>>

Next ==
    \/ PrecheckFail
    \/ PrecheckPass
    \/ Initialize
    \/ Solve
    \/ Return
    \/ Drop
    \/ FullStep
    \/ PartialStep
    \/ Rerun

Spec == Init /\ [][Next]_vars

-----------------------------------------------------------------------------
(* Two calls in progress: one runs, the other is parked between two of its
   steps; the arguments and the locals of a call are its own, tol_zero is
   the one value both read *)

\* the arguments and locals of the running call
Context ==
    [G |-> G,
     c |-> c,
     ae |-> ae,
     be |-> be,
     ai |-> ai,
     bi |-> bi,
     x0 |-> x0,
     pc |-> pc,
     xk |-> xk,
     ws_active |-> ws_active,
     ws_inactive |-> ws_inactive,
     we |-> we,
     ws |-> ws,
     pk |-> pk,
     lambda_k |-> lambda_k,
     alpha_k |-> alpha_k,
     n_constraint |-> n_constraint,
     iter |-> iter,
     last |-> last,
     call |-> call,
     active_1 |-> active_1]

\* a call that has not taken a step
Fresh(p) ==
    [G |-> p.G, c |-> p.c, ae |-> p.ae, be |-> p.be, ai |-> p.ai, bi |-> p.bi,
     x0 |-> (IF p.x0 = None THEN None ELSE RVec(p.x0)),
     pc |-> "precheck", xk |-> <<>>,
     ws_active |-> <<>>, ws_inactive |-> <<>>, we |-> <<>>, ws |-> <<>>,
     pk |-> <<>>, lambda_k |-> <<>>, alpha_k |-> ROne, n_constraint |-> 0,
     iter |-> 0, last |-> "none", call |-> 1, active_1 |-> <<>>]

\* the second call of the notebook from a start point that fails the precheck
InfeasibleStart ==
    Problem(diag2, <<0, 0>>, <<<<1, -1, 0>>>>, <<<<1, 0, 1>>>>, <<0, 0>>)

PairProblems == {Test1, Test2, Test3, InfeasibleStart}

InitPair ==
    /\ \E p \in PairProblems :
        /\ G = Fresh(p).G
        /\ c = Fresh(p).c
        /\ ae = Fresh(p).ae
        /\ be = Fresh(p).be
        /\ ai = Fresh(p).ai
        /\ bi = Fresh(p).bi
        /\ x0 = Fresh(p).x0
        /\ pc = Fresh(p).pc
        /\ xk = Fresh(p).xk
        /\ ws_active = Fresh(p).ws_active
        /\ ws_inactive = Fresh(p).ws_inactive
        /\ we = Fresh(p).we
        /\ ws = Fresh(p).ws
        /\ pk = Fresh(p).pk
        /\ lambda_k = Fresh(p).lambda_k
        /\ alpha_k = Fresh(p).alpha_k
        /\ n_constraint = Fresh(p).n_constraint
        /\ iter = Fresh(p).iter
        /\ last = Fresh(p).last
        /\ call = Fresh(p).call
        /\ active_1 = Fresh(p).active_1
    /\ \E q \in PairProblems : parked = Fresh(q)
    /\ unit = 0

\* a variant in which the two calls share one pk
Switch_SharedStep ==
    /\ parked # None
    /\ parked' = Context
    /\ G' = parked.G
    /\ c' = parked.c
    /\ ae' = parked.ae
    /\ be' = parked.be
    /\ ai' = parked.ai
    /\ bi' = parked.bi
    /\ x0' = parked.x0
    /\ pc' = parked.pc
    /\ xk' = parked.xk
    /\ ws_active' = parked.ws_active
    /\ ws_inactive' = parked.ws_inactive
    /\ we' = parked.we
    /\ ws' = parked.ws
    /\ pk' = pk
    /\ lambda_k' = parked.lambda_k
    /\ alpha_k' = parked.alpha_k
    /\ n_constraint' = parked.n_constraint
    /\ iter' = parked.iter
    /\ last' = parked.last
    /\ call' = parked.call
    /\ active_1' = parked.active_1
    /\ UNCHANGED unit

\* the running call is parked where it stands and the parked call runs on
Switch ==
    /\ parked # None
    /\ parked' = Context
    /\ G' = parked.G
    /\ c' = parked.c
    /\ ae' = parked.ae
    /\ be' = parked.be
    /\ ai' = parked.ai
    /\ bi' = parked.bi
    /\ x0' = parked.x0
    /\ pc' = parked.pc
    /\ xk' = parked.xk
    /\ ws_active' = parked.ws_active
    /\ ws_inactive' = parked.ws_inactive
    /\ we' = parked.we
    /\ ws' = parked.ws
    /\ pk' = parked.pk
    /\ lambda_k' = parked.lambda_k
    /\ alpha_k' = parked.alpha_k
    /\ n_constraint' = parked.n_constraint
    /\ iter' = parked.iter
    /\ last' = parked.last
    /\ call' = parked.call
    /\ active_1' = parked.active_1
    /\ UNCHANGED unit

PairNext == Next \/ Switch

PairSpec == InitPair /\ [][PairNext]_vars

-----------------------------------------------------------------------------
(* Calls on data of the size of tol_zero: c, be, bi and x0 are whole
   multiples of tol_zero (unit = TolExp), G, ae and ai are as before, so the
   entries of sol are multiples of tol_zero too and abs(sol) < tol_zero reads
   "less than one unit" *)

SnapCSet == {<<-1, -1>>, <<0, 1>>, <<-2, -5>>}

SnapIneqBlocks == {<<>>} \cup {<<r>> : r \in IneqRows}

SnapProblems ==
    {Problem(Gm, cv, eqs, ineqs, start) :
        Gm \in GSet, cv \in SnapCSet, eqs \in EqBlocks,
        ineqs \in SnapIneqBlocks, start \in StartPoints}

InitSnap ==
    /\ \E p \in SnapProblems :
        /\ G = p.G /\ c = p.c
        /\ ae = p.ae /\ be = p.be
        /\ ai = p.ai /\ bi = p.bi
        /\ x0 = (IF p.x0 = None THEN None ELSE RVec(p.x0))
    /\ pc = "precheck"
    /\ xk = <<>>
    /\ ws_active = <<>> /\ ws_inactive = <<>>
    /\ we = <<>> /\ ws = <<>>
    /\ pk = <<>> /\ lambda_k = <<>>
    /\ alpha_k = ROne /\ n_constraint = 0
    /\ iter = 0
    /\ last = "none"
    /\ call = 1
    /\ active_1 = <<>>
    /\ unit = TolExp
    /\ parked = None

SnapSpec == InitSnap /\ [][Next]_vars

TypeOK ==
    /\ pc \in {"precheck", "init", "solve", "branch", "done", "error", "singular"}
    /\ iter \in 0..MaxIter
    /\ call \in {1, 2}
    /\ unit \in {0, TolExp}
    /\ parked = None \/ parked.pc \in {"precheck", "init", "solve", "branch", "done", "error", "singular"}
    /\ Len(ws_active) + Len(ws_inactive) <= Len(ai)

-----------------------------------------------------------------------------
(* Vocabulary of the properties *)

EqRowsIn == IF ae = None THEN <<>> ELSE hstack(ae, be)
IneqRowsIn == IF ai = None THEN <<>> ELSE hstack(ai, bi)

\* a x = b for every equality row, a x >= b for every inequality row
SatisfiesAll(x) ==
    /\ \A i \in 1..Len(EqRowsIn) :
          Dot(RowA(EqRowsIn[i]), x) = RInt(RowB(EqRowsIn[i]))
    /\ \A i \in 1..Len(IneqRowsIn) :
          ~RLt(Dot(RowA(IneqRowsIn[i]), x), RInt(RowB(IneqRowsIn[i])))

\* the row is binding at x
Binding(row, x) == Dot(RowA(row), x) = RInt(RowB(row))

\* A A' of the coefficient block of a sequence of rows
Gram(rows) ==
    [i \in 1..Len(rows) |-> [j \in 1..Len(rows) |->
        ISum([k \in 1..(Len(rows[i]) - 1) |-> rows[i][k] * rows[j][k]])]]

\* the coefficient rows are linearly independent
Independent(rows) == Det(Gram(rows)) # 0

\* q(x) = 1/2 x'Gx + x'c
Objective(x) ==
    RAdd(RMul(<<1, 2>>, RSum([i \in 1..Len(x) |-> RMul(x[i], Dot(G[i], x))])),
         Dot(c, x))

\* points the returned point is compared with: halves in 0..MaxCoord + 1
ComparePoints ==
    {[i \in 1..Nx |-> Rat(f[i], 2)] : f \in [1..Nx -> 0..(2 * MaxCoord + 2)]}

IsProblem(p) ==
    /\ G = p.G /\ c = p.c /\ ae = p.ae /\ be = p.be
    /\ ai = p.ai /\ bi = p.bi
    /\ x0 = (IF p.x0 = None THEN None ELSE RVec(p.x0))

\* the outputs the notebook records for its four calls
NotebookOutputs ==
    pc = "done" =>
        /\ IsProblem(Test1) => xk = <<<<7, 5>>, <<17, 10>>>> /\ lambda_k = <<<<4, 5>>>>
        /\ IsProblem(Test2) => xk = <<ROne, ROne>> /\ lambda_k = <<<<-2, 1>>, <<4, 1>>>>
        /\ IsProblem(Test3) => xk = <<RZero, RZero>> /\ lambda_k = <<RZero>>
        /\ IsProblem(Test4) =>
              xk = <<<<1, 3>>, <<1, 3>>, <<1, 3>>>> /\ lambda_k = <<<<2, 3>>>>

-----------------------------------------------------------------------------
(* Properties at return *)

\* C1: whenever QP_activeset returns, the returned point satisfies every
\* equality row with equality and every inequality row, active or inactive.
C1_PrimalFeasibleAtReturn == pc = "done" => SatisfiesAll(xk)

\* C2: whenever QP_activeset returns, G x* + c = A' lambda*, A the coefficient
\* block of the final working set and lambda* the returned multipliers.
C2_Stationarity ==
    pc = "done" =>
        /\ Len(lambda_k) = Len(ws)
        /\ \A j \in 1..Nx :
              RAdd(Dot(G[j], xk), RInt(c[j]))
                  = RSum([i \in 1..Len(ws) |-> RMul(RInt(ws[i][j]), lambda_k[i])])

\* a return with a row in the working set and a non-zero multiplier, after
\* the working set or the iterate has changed
C2_Witness ==
    /\ pc = "done"
    /\ iter > 1
    /\ ws_active # <<>>
    /\ \E i \in 1..Len(lambda_k) : lambda_k[i] # RZero

\* C3: whenever QP_activeset returns, every returned multiplier after the
\* first Ne entries is >= 0.
C3_DualFeasibleAtReturn ==
    pc = "done" =>
        \A i \in (Ne + 1)..Len(lambda_k) : ~RLt(lambda_k[i], RZero)

\* a return with two active rows after a drop or a step
C3_Witness ==
    /\ pc = "done"
    /\ iter > 1
    /\ Len(lambda_k) >= Ne + 2

\* C4 (as claimed): at return no inequality row that is binding at x* is left
\* in the inactive set, every inactive row having a x* > b strictly.
C4_NoBindingRowInactive ==
    pc = "done" =>
        \A i \in 1..Len(ws_inactive) : ~Binding(ws_inactive[i], xk)

\* C4 (amended): at return every row of the active set is binding at x* and
\* the multipliers are exactly those of the equality rows and the active rows,
\* so an inactive row carries no multiplier; it may be binding at x*.
C4_ComplementarySlackness ==
    pc = "done" =>
        /\ \A i \in 1..Len(ws_active) : Binding(ws_active[i], xk)
        /\ Len(lambda_k) = Ne + Len(ws_active)

\* a return with an active row and an inactive row, both binding at x*
C4_Witness ==
    /\ pc = "done"
    /\ ws_active # <<>>
    /\ \E i \in 1..Len(ws_inactive) : Binding(ws_inactive[i], xk)

\* C5: for positive-definite G (every G drawn is), a feasible start and
\* linearly independent constraint rows, the returned point is the minimiser:
\* it is feasible and no feasible point has a smaller objective value.
C5_ReturnsMinimiser ==
    (pc = "done" /\ Independent(EqRowsIn \o IneqRowsIn)) =>
        /\ SatisfiesAll(xk)
        /\ \A y \in ComparePoints :
              SatisfiesAll(y) => RLe(Objective(xk), Objective(y))

-----------------------------------------------------------------------------
(* Properties of the start point *)

Origin == [i \in 1..Nx |-> RZero]

\* C6: a supplied x0 that violates an equality or an inequality row ends in
\* the error outcome: the call never gets past the precheck, and at the error
\* no working set has been computed, no subproblem solved, nothing returned.
C6_InfeasibleStartReported ==
    /\ (x0 # None /\ ~SatisfiesAll(x0)) => pc \in {"precheck", "error"}
    /\ pc = "error" =>
          /\ xk = <<>> /\ ws_active = <<>> /\ ws_inactive = <<>>
          /\ we = <<>> /\ ws = <<>> /\ pk = <<>> /\ lambda_k = <<>>
          /\ iter = 0 /\ last = "none"

\* the error outcome for a supplied x0 that violates an inequality row only
C6_Witness ==
    /\ pc = "error"
    /\ x0 # None
    /\ \A i \in 1..Len(EqRowsIn) : Binding(EqRowsIn[i], x0)
    /\ \E i \in 1..Len(IneqRowsIn) :
          RLt(Dot(RowA(IneqRowsIn[i]), x0), RInt(RowB(IneqRowsIn[i])))

\* C7: with x0 omitted the start is the zero vector of length Nx, and it goes
\* through the same precheck: an origin that violates a row ends in the error
\* outcome.
C7_DefaultStart ==
    x0 = None =>
        /\ pc = "init" => xk = Origin
        /\ ~SatisfiesAll(Origin) => pc \in {"precheck", "error"}

\* the error outcome for an omitted x0 and an equality with be # 0
C7_Witness ==
    /\ x0 = None
    /\ pc = "error"
    /\ ae # None
    /\ be[1] # 0

-----------------------------------------------------------------------------
(* Properties of the working set *)

Count(s, r) == Cardinality({i \in 1..Len(s) : s[i] = r})

Range(s) == {s[i] : i \in 1..Len(s)}

\* C9: after initialisation every inequality row is in exactly one of the
\* active and the inactive set: the two sets together hold each row as often
\* as the input does, and |active| + |inactive| = Ni.
C9_WorkingSetPartition ==
    pc \in {"solve", "branch", "done", "singular"} =>
        /\ Len(ws_active) + Len(ws_inactive) = Ni
        /\ \A r \in Range(IneqRowsIn) \cup Range(ws_active) \cup Range(ws_inactive) :
              Count(ws_active, r) + Count(ws_inactive, r) = Count(IneqRowsIn, r)

\* the first call of the notebook after its two drops and its add
C9_Witness == IsProblem(Test1) /\ pc = "solve" /\ last = "partial"

-----------------------------------------------------------------------------
(* Termination *)

Terminated == pc \in {"done", "error", "singular"}

-----------------------------------------------------------------------------
(* The call repeated from the returned point *)

\* the equality rows and the inequality rows binding at x, in input order
BindingRows(x) == EqRowsIn \o SelectSeq(IneqRowsIn, LAMBDA r : Binding(r, x))

\* the repeated call ends at its first solve: no error, a zero step and
\* non-negative inequality multipliers at once, no drop, add or step, x* again
ReturnsAtFirstSolve ==
    /\ pc \notin {"error", "singular"}
    /\ iter <= 1
    /\ last \in {"none", "return"}
    /\ pc = "branch" => ZeroStep /\ MultipliersNonNegative
    /\ pc = "done" => xk = x0

-----------------------------------------------------------------------------
(* The returned multipliers *)

\* G x + c = sum_i lam[i] * a_i, a_i the coefficients of the i-th row of rows
PairedStationarity(x, rows, lam) ==
    \A j \in 1..Len(x) :
        RAdd(Dot(G[j], x), RInt(c[j]))
            = RSum([i \in 1..Len(rows) |-> RMul(RInt(rows[i][j]), lam[i])])

\* C12: the returned lambda* has Ne + |active| entries; entry i is the
\* multiplier of row i of the sequence "equality rows in input order, then the
\* active rows"; the active rows start as the rows binding at the start point
\* in input order, and afterwards a row enters only at the end and a row
\* leaves without disturbing the order of the others.
C12_MultiplierShapeAndOrder ==
    [][ /\ pc' = "done" =>
              /\ Len(lambda_k') = Ne + Len(ws_active')
              /\ ws' = EqRowsIn \o ws_active'
              /\ PairedStationarity(xk', EqRowsIn \o ws_active', lambda_k')
        /\ pc = "init" =>
              ws_active' = SelectSeq(IneqRowsIn, LAMBDA r : Binding(r, xk))
        /\ pc \in {"solve", "branch"} =>
              \/ ws_active' = ws_active
              \/ \E i \in 1..Len(ws_inactive) :
                    ws_active' = Append(ws_active, ws_inactive[i])
              \/ \E n \in 1..Len(ws_active) :
                    ws_active' = Delete(ws_active, n)
      ]_vars

\* a return with two active rows that carry different multipliers, the last
\* of them added by a partial step and standing before the other in the input
C12_Witness ==
    /\ pc = "done"
    /\ Len(ws_active) = 2
    /\ n_constraint > 0
    /\ lambda_k[Ne + 1] # lambda_k[Ne + 2]
    /\ ws_active # SelectSeq(IneqRowsIn, LAMBDA r : Count(ws_active, r) > 0)

-----------------------------------------------------------------------------
(* Problems without inequality rows *)

\* C13: with no inequality rows and a start point that satisfies the
\* equalities, no row is ever dropped or added and no solve is singular; the
\* call returns at its first solve, or takes one full step to x0 + pk and
\* returns at its second solve; a zero step returns whatever the signs of the
\* multipliers, and the returned lambda* has exactly Ne entries.
C13_EqualityOnly ==
    (Ni = 0 /\ pc \notin {"precheck", "error"}) =>
        /\ pc # "singular"
        /\ last \notin {"drop", "partial"}
        /\ ws_active = <<>> /\ ws_inactive = <<>>
        /\ iter <= 2
        /\ (pc = "solve" /\ last = "full") => iter = 1 /\ xk = VAdd(StartPoint, pk)
        /\ (pc = "branch" /\ iter = 2) => ZeroStep
        /\ (pc = "branch" /\ ZeroStep) => MultipliersNonNegative
        /\ pc = "done" => Len(lambda_k) = Ne

\* a return after one full step with a negative equality multiplier
C13_Witness ==
    /\ Ni = 0
    /\ pc = "done"
    /\ iter = 2
    /\ Ne = 1
    /\ RLt(lambda_k[1], RZero)

-----------------------------------------------------------------------------
(* The step length *)

\* the inactive rows the step p moves towards: a p < 0
BlockingRows(inact, p) ==
    {i \in 1..Len(inact) : RLt(Dot(RowA(inact[i]), p), RZero)}

\* (b - a x) / (a p)
Ratio(row, x, p) == RDiv(RNeg(Residual(row, x)), Dot(RowA(row), p))

\* the least element of a non-empty set of rationals
RMin(S) == CHOOSE q \in S : \A r \in S : RLe(q, r)

\* min(1, min over the rows with a p < 0 of (b - a x) / (a p))
MinRatio(inact, x, p) ==
    RMin({ROne} \cup {Ratio(inact[i], x, p) : i \in BlockingRows(inact, p)})

\* the rows with a p < 0 whose ratio is the least of all such rows
TiedRows(inact, x, p) ==
    {i \in BlockingRows(inact, p) :
        \A j \in BlockingRows(inact, p) :
            RLe(Ratio(inact[i], x, p), Ratio(inact[j], x, p))}

\* the least element of a non-empty set of indices
First(S) == CHOOSE i \in S : \A j \in S : i <= j

\* C14: in an iteration with a non-zero step the alpha_k that updates x_k is
\* min(1, least ratio over the inactive rows with a p_k < 0), whatever the
\* order of the rows.
C14_StepLengthIsMinimumRatio ==
    [][ (pc = "branch" /\ ~ZeroStep) =>
            /\ alpha_k' = MinRatio(ws_inactive, xk, pk)
            /\ xk' = VAdd(xk, VScale(pk, MinRatio(ws_inactive, xk, pk)))
      ]_vars

\* C15: when a partial step is taken and several inactive rows attain the
\* least ratio, the row moved into the active set is the first of them in the
\* order of the inactive set.
C15_FirstTiedRowIsAdded ==
    [][ (/\ pc = "branch" /\ ~ZeroStep
         /\ last' = "partial"
         /\ Cardinality(TiedRows(ws_inactive, xk, pk)) > 1) =>
            /\ n_constraint' = First(TiedRows(ws_inactive, xk, pk))
            /\ ws_active' =
                 Append(ws_active, ws_inactive[First(TiedRows(ws_inactive, xk, pk))])
      ]_vars

-----------------------------------------------------------------------------
(* The three moves of an iteration *)

\* C16: in an iteration with a zero step and a negative inequality multiplier
\* exactly one row leaves the active set: the row with the most negative
\* multiplier, the lowest index on ties; it is appended at the end of the
\* inactive set, the other active rows keep their order, the equality rows
\* stay, the working set is rebuilt and x_k is unchanged.
C16_DropRule ==
    [][ (/\ pc = "branch" /\ ZeroStep
         /\ \E i \in (Ne + 1)..Len(lambda_k) : RLt(lambda_k[i], RZero)) =>
            \E n \in 1..Len(ws_active) :
                /\ RLt(lambda_k[Ne + n], RZero)
                /\ \A j \in 1..Len(ws_active) : RLe(lambda_k[Ne + n], lambda_k[Ne + j])
                /\ \A j \in 1..(n - 1) : RLt(lambda_k[Ne + n], lambda_k[Ne + j])
                /\ ws_active' = SubSeq(ws_active, 1, n - 1)
                                  \o SubSeq(ws_active, n + 1, Len(ws_active))
                /\ ws_inactive' = ws_inactive \o <<ws_active[n]>>
                /\ we' = we /\ we = EqRowsIn
                /\ ws' = we \o ws_active'
                /\ xk' = xk
                /\ pc' = "solve"
      ]_vars

\* a drop has been made from two active rows whose multipliers tied at a
\* negative value
C16_Witness ==
    /\ pc = "solve"
    /\ last = "drop"
    /\ Len(lambda_k) = Ne + 2
    /\ lambda_k[Ne + 1] = lambda_k[Ne + 2]
    /\ RLt(lambda_k[Ne + 1], RZero)
    /\ Len(ws_active) = 1

\* C17: in an iteration with a non-zero step where no inactive row with
\* a p_k < 0 has a ratio below 1, x_k becomes x_k + p_k and the active set, the
\* inactive set and the working set stay as they are, also when an inactive
\* row is binding at the new x_k.
C17_FullStep ==
    [][ (/\ pc = "branch" /\ ~ZeroStep
         /\ \A i \in BlockingRows(ws_inactive, pk) :
               ~RLt(Ratio(ws_inactive[i], xk, pk), ROne)) =>
            /\ xk' = VAdd(xk, pk)
            /\ UNCHANGED <<ws_active, ws_inactive, we, ws>>
            /\ pc' = "solve"
      ]_vars

\* a full step has been taken towards an inactive row, which is binding at
\* the new x_k
C17_Witness ==
    /\ pc = "solve"
    /\ last = "full"
    /\ \E i \in BlockingRows(ws_inactive, pk) : Binding(ws_inactive[i], xk)

-----------------------------------------------------------------------------
(* The optimality test and the working set *)

\* C19: the call returns exactly when the step is zero and every multiplier
\* after the first Ne is >= 0; the first Ne multipliers neither prevent the
\* return nor select a row to drop: every change of the working set leaves
\* the equality rows at its head.
C19_EqualityMultipliersIgnored ==
    [][ /\ pc = "branch" =>
              ((pc' = "done") <=>
                  (/\ \A i \in 1..Len(pk) : pk[i] = RZero
                   /\ \A i \in (Ne + 1)..Len(lambda_k) : RLe(RZero, lambda_k[i])))
        /\ pc \in {"solve", "branch"} =>
              /\ we' = EqRowsIn
              /\ Len(ws') >= Ne
              /\ SubSeq(ws', 1, Ne) = EqRowsIn
      ]_vars

\* a return with an active inequality row and a negative equality multiplier
C19_Witness ==
    /\ pc = "done"
    /\ Ne = 1
    /\ Len(ws_active) = 1
    /\ RLt(lambda_k[1], RZero)
    /\ we = EqRowsIn

\* C20: whenever QP_subproblem is called, and while its result is examined,
\* every row of the working set, equality row or active inequality row, is
\* binding at x_k, and the working set is the equality rows followed by the
\* active rows.
C20_WorkingSetBinding ==
    pc \in {"solve", "branch", "singular"} =>
        /\ ws = EqRowsIn \o ws_active
        /\ \A i \in 1..Len(ws) : Binding(ws[i], xk)

\* a solve is due after an earlier iteration and then a partial step of
\* positive length, taken from a point where a row still inactive was binding
C20_Witness ==
    /\ pc = "solve"
    /\ last = "partial"
    /\ iter >= 2
    /\ RLt(RZero, alpha_k)
    /\ ws_active # <<>>
    /\ \E i \in 1..Len(ws_inactive) :
          Binding(ws_inactive[i], VAdd(xk, VScale(pk, RNeg(alpha_k))))

-----------------------------------------------------------------------------
(* The initial classification and the shape of the working set *)

\* the indices of the inequality rows with (ai x)_i - bi_i = 0
ActiveIdx(x) == {i \in 1..Ni : Dot(ai[i], x) = RInt(bi[i])}

\* the rows [ai_i | bi_i] of the indices in S, in increasing order of index
RowsAt(S) ==
    [k \in 1..Cardinality(S) |->
        LET i == CHOOSE i \in S : Cardinality({j \in S : j <= i}) = k
        IN  ai[i] \o <<bi[i]>>]

\* C21: the initial classification puts row i in the active set iff
\* (ai x0)_i - bi_i is exactly 0 and in the inactive set otherwise; each row is
\* its coefficients followed by its right-hand side, the rows keep their input
\* order within each set, ai, bi and the start point are not modified, and
\* with no inequalities both sets are empty.
C21_InitialClassification ==
    [][ pc = "init" =>
            /\ ws_active' = RowsAt(ActiveIdx(xk))
            /\ ws_inactive' = RowsAt((1..Ni) \ ActiveIdx(xk))
            /\ ai = None => ws_active' = <<>> /\ ws_inactive' = <<>>
            /\ UNCHANGED <<ai, bi, x0, xk>>
      ]_vars

\* the first call of the notebook classified: rows 3 and 5 active, the others
\* inactive
C21_Witness ==
    /\ IsProblem(Test1)
    /\ pc = "solve"
    /\ iter = 0
    /\ ws_active = <<<<-1, 2, -2>>, <<0, 1, 0>>>>
    /\ Len(ws_inactive) = 3

\* C22: at every solve the working set is the Ne equality rows in input order
\* followed by the current active rows, Ne + |active| rows in all, and the
\* lambda_k of the solve has that many entries.
C22_EqualitiesLead ==
    pc \in {"solve", "branch", "done"} =>
        /\ Len(ws) = Ne + Len(ws_active)
        /\ \A i \in 1..Ne : ws[i] = ae[i] \o <<be[i]>>
        /\ \A i \in 1..Len(ws_active) : ws[Ne + i] = ws_active[i]
        /\ pc \in {"branch", "done"} => Len(lambda_k) = Ne + Len(ws_active)

\* a solve has been made after a drop from a working set with an equality row
C22_Witness ==
    /\ pc = "branch"
    /\ last = "drop"
    /\ Ne = 1
    /\ Len(ws) = 1

\* the outcome of an iteration, from the result of its solve
Outcome ==
    IF \A i \in 1..Len(pk) : pk[i] = RZero
    THEN IF \A i \in (Ne + 1)..Len(lambda_k) : RLe(RZero, lambda_k[i])
         THEN "return" ELSE "drop"
    ELSE IF \A i \in BlockingRows(ws_inactive, pk) :
               ~RLt(Ratio(ws_inactive[i], xk, pk), ROne)
         THEN "full" ELSE "partial"

\* C24: every solve is followed by exactly one of return, drop, full step and
\* partial step, the one the result of the solve determines, and then by the
\* next solve or the end of the call; |active| changes by -1 in a drop, by +1
\* in a partial step and not at all in a full step or a return, and x_k
\* changes only in a full step or a partial step.
C24_OneOutcomePerIteration ==
    [][ /\ pc = "solve" => pc' \in {"branch", "singular"} /\ last' = last
        /\ pc = "branch" =>
              /\ last' = Outcome
              /\ pc' = (IF Outcome = "return" THEN "done" ELSE "solve")
              /\ Len(ws_active') - Len(ws_active) =
                    (IF Outcome = "drop" THEN -1
                     ELSE IF Outcome = "partial" THEN 1 ELSE 0)
              /\ Len(ws_inactive') + Len(ws_active') = Len(ws_inactive) + Len(ws_active)
              /\ xk' # xk => Outcome \in {"full", "partial"}
              /\ iter' = iter
      ]_vars

\* the first call of the notebook has returned after its drops, its full
\* step and its partial step
C24_Witness ==
    /\ IsProblem(Test1)
    /\ pc = "done"
    /\ iter >= 5
    /\ Len(ws_active) = 1
    /\ Len(ws_inactive) = 4

-----------------------------------------------------------------------------
(* Properties of the iterates *)

\* C26: from a start point that passed the precheck, the x_k held at the
\* start of every iteration satisfies every equality row with equality and
\* every inequality row, active or inactive.
C26_IteratesFeasible == pc \in {"solve", "branch"} => SatisfiesAll(xk)

\* C27: in every iteration with a non-zero step the alpha_k applied to p_k
\* lies in [0, 1].
C27_StepLengthInUnitInterval ==
    [][ (pc = "branch" /\ ~ZeroStep) =>
            /\ RLe(RZero, alpha_k') /\ RLe(alpha_k', ROne)
            /\ xk' = VAdd(xk, VScale(pk, alpha_k'))
      ]_vars

\* C28: the objective at x_k does not increase from one iteration to the
\* next (every G drawn is positive definite).
C28_ObjectiveNonIncreasing ==
    [][ pc = "branch" => RLe(Objective(xk'), Objective(xk)) ]_vars

\* the row dropped by the last iteration: the last of the inactive rows
DroppedRow == ws_inactive[Len(ws_inactive)]

\* C29: in the iteration that follows the drop of a row j the step satisfies
\* a_j p_k >= 0, and the outcome of that iteration does not add row j back.
C29_DroppedRowNotReAdded ==
    [][ (pc = "branch" /\ last = "drop") =>
            /\ RLe(RZero, Dot(RowA(DroppedRow), pk))
            /\ last' = "partial" => n_constraint' # Len(ws_inactive)
            /\ last' = "partial" => ws_inactive'[Len(ws_inactive')] = DroppedRow
      ]_vars

\* the rows the scan of this iteration accepts: a p_k < 0 and ratio below 1
AcceptedRows ==
    {i \in BlockingRows(ws_inactive, pk) :
        RLt(Ratio(ws_inactive[i], xk, pk), ROne)}

\* the greatest element of a non-empty set of indices
Latest(S) == CHOOSE i \in S : \A j \in S : j <= i

\* the solve that follows a drop has given a step that leaves the dropped row
\* and that another inactive row blocks: a partial step is due
C29_Witness ==
    /\ pc = "branch"
    /\ last = "drop"
    /\ RLt(RZero, Dot(RowA(DroppedRow), pk))
    /\ AcceptedRows # {}

\* C30: the partial-step branch is taken exactly when the scan of the same
\* iteration accepted a row; the n_constraint it reads is then the last row
\* that scan accepted, whatever value an earlier iteration left, it is an
\* index into the current inactive set, and the ratio of the row it names is
\* the alpha_k applied; when the scan accepts no row n_constraint is not read.
C30_BlockingIndexCurrent ==
    [][ (pc = "branch" /\ ~ZeroStep) =>
            IF AcceptedRows = {}
            THEN last' = "full" /\ n_constraint' = n_constraint
            ELSE /\ last' = "partial"
                 /\ n_constraint' = Latest(AcceptedRows)
                 /\ n_constraint' \in 1..Len(ws_inactive)
                 /\ alpha_k' = Ratio(ws_inactive[n_constraint'], xk, pk)
                 /\ ws_active' = ws_active \o <<ws_inactive[n_constraint']>>
      ]_vars

\* two rows, neither binding at the start, have been added by partial steps,
\* the second row of the input first: the index left by the first partial
\* step was no index into the inactive set of the second
C30_Witness ==
    /\ pc = "solve"
    /\ last = "partial"
    /\ call = 1
    /\ Ni = 2
    /\ \A i \in 1..Ni : ~Binding(IneqRowsIn[i], StartPoint)
    /\ ws_active = <<IneqRowsIn[2], IneqRowsIn[1]>>
    /\ IneqRowsIn[1] # IneqRowsIn[2]
    /\ n_constraint = 1

-----------------------------------------------------------------------------
(* The near-zero snap *)

\* inv(lhs) @ rhs of the solve of this iteration, before the snap
RawSolution == RMatVec(Inv(KKTlhs(G, ws, Nx)), KKTrhs(G, c, ws, xk))

\* abs(q) < tol_zero for q counted in units of tol_zero
Tiny(q) == Abs(q[1]) < q[2]

\* every entry of the raw step is below tol_zero in magnitude
TinyStep == \A i \in 1..Nx : Tiny(RawSolution[i])

\* no raw inequality multiplier is at or below -tol_zero
NoMultiplierBelowTol ==
    \A i \in (Nx + Ne + 1)..Len(RawSolution) :
        RLt(RNeg(ROne), RawSolution[i])

\* C23: on data of the size of tol_zero, the p_k and lambda_k an iteration
\* branches on are the raw solution with every entry of magnitude below
\* tol_zero replaced by 0; a step whose raw entries are all below tol_zero is
\* handled as a zero step (return or drop, x_k kept); and when, in addition,
\* every raw inequality multiplier is above -tol_zero the call returns
\* without a drop.
C23_SnapGovernsTests ==
    [][ (unit = TolExp /\ pc = "branch") =>
            /\ Len(RawSolution) = Len(pk) + Len(lambda_k)
            /\ \A i \in 1..Len(pk) :
                  pk[i] = (IF Tiny(RawSolution[i]) THEN RZero ELSE RawSolution[i])
            /\ \A i \in 1..Len(lambda_k) :
                  lambda_k[i] = (IF Tiny(RawSolution[Nx + i]) THEN RZero
                                 ELSE RawSolution[Nx + i])
            /\ TinyStep => last' \in {"return", "drop"} /\ xk' = xk
            /\ (TinyStep /\ NoMultiplierBelowTol) =>
                  /\ last' = "return" /\ pc' = "done"
                  /\ ws_active' = ws_active
            /\ (TinyStep /\ ~NoMultiplierBelowTol) => last' = "drop"
      ]_vars

\* a call has returned where the raw step was not zero but below tol_zero in
\* every entry and a raw inequality multiplier lay in (-tol_zero, 0)
C23_Witness ==
    /\ unit = TolExp
    /\ pc = "done"
    /\ call = 1
    /\ TinyStep
    /\ \E i \in 1..Nx : RawSolution[i] # RZero
    /\ \E i \in (Nx + Ne + 1)..Len(RawSolution) :
          RLt(RawSolution[i], RZero) /\ RLt(RNeg(ROne), RawSolution[i])

-----------------------------------------------------------------------------
(* Two calls interleaved *)

\* what a call on p gives when it runs alone
Alone(p) ==
    CASE p = Test1 ->
            [pc |-> "done", xk |-> <<<<7, 5>>, <<17, 10>>>>,
             lambda_k |-> <<<<4, 5>>>>, ws_active |-> <<<<1, -2, -2>>>>]
      [] p = Test2 ->
            [pc |-> "done", xk |-> <<ROne, ROne>>,
             lambda_k |-> <<<<-2, 1>>, <<4, 1>>>>, ws_active |-> <<<<1, 0, 1>>>>]
      [] p = Test3 ->
            [pc |-> "done", xk |-> <<RZero, RZero>>,
             lambda_k |-> <<RZero>>, ws_active |-> <<>>]
      [] p = InfeasibleStart ->
            [pc |-> "error", xk |-> <<>>, lambda_k |-> <<>>, ws_active |-> <<>>]

\* the first call on p, in context ctx, has ended
EndedOn(ctx, p) ==
    /\ ctx.call = 1
    /\ ctx.pc \in {"done", "error", "singular"}
    /\ <<ctx.G, ctx.c, ctx.ae, ctx.be, ctx.ai, ctx.bi, ctx.x0>> =
          <<p.G, p.c, p.ae, p.be, p.ai, p.bi, Fresh(p).x0>>

ResultOf(ctx) ==
    [pc |-> ctx.pc, xk |-> ctx.xk, lambda_k |-> ctx.lambda_k,
     ws_active |-> ctx.ws_active]

\* each call that has ended, running or parked, ended as it does alone
EndsAsAlone ==
    \A p \in PairProblems :
        /\ EndedOn(Context, p) => ResultOf(Context) = Alone(p)
        /\ (parked # None /\ EndedOn(parked, p)) => ResultOf(parked) = Alone(p)

====
